---- MODULE Spec2Model ----
(***************************************************************************)
(* zarr.js: the array engine (ZarrArray get / set over a chunk store), the *)
(* basic indexer that turns a selection into chunk projections, and the    *)
(* NestedArray container the engine moves data through.                    *)
(*                                                                         *)
(* Representation.  A nullable number is a tuple: <<>> is null, <<n>> is   *)
(* the number n.  A dimension selection is a tagged record (slice, int or  *)
(* null).  A NestedArray is its shape with its elements in row-major       *)
(* order; a flat typed buffer is a sequence of numbers.  A chunk key is    *)
(* the tuple of chunk-grid coordinates the key string is joined from.      *)
(***************************************************************************)
EXTENDS Integers, Sequences, FiniteSets, TLC

\* ------------------------------------------------------------------------
\* Bounds of the model
\* ------------------------------------------------------------------------

\* operations one client issues in a behaviour
MaxOps == 2

\* chunk writes (setItem) the store holds in flight at a time
MaxPending == 1

\* ------------------------------------------------------------------------
\* Small arithmetic
\* ------------------------------------------------------------------------

Null == <<>>

Some(n) == <<n>>

IsNull(x) == x = <<>>

Max(a, b) == IF a >= b THEN a ELSE b

Min(a, b) == IF a <= b THEN a ELSE b

\* Math.ceil(a / b) for b # 0
CeilDiv(a, b) == IF b > 0 THEN -((-a) \div b) ELSE -(a \div (-b))

Clamp(v, lo, hi) == Max(lo, Min(v, hi))

\* the only element of a one-element set
The(S) == CHOOSE x \in S : TRUE

RECURSIVE Prod(_)
Prod(s) == IF s = <<>> THEN 1 ELSE Head(s) * Prod(Tail(s))

\* the sequences <<h[i]>> \o rest[j], i outermost
Cross(h, rest) ==
  [k \in 1..(Len(h) * Len(rest)) |->
     <<h[((k - 1) \div Len(rest)) + 1]>> \o rest[((k - 1) % Len(rest)) + 1]]

RECURSIVE Product(_)
\* Cartesian product of a sequence of sequences, first component outermost
Product(seqs) ==
  IF seqs = <<>> THEN << <<>> >>
  ELSE The({ Cross(Head(seqs), rest) : rest \in {Product(Tail(seqs))} })

\* the subsequence of s at the positions where keep holds, in order
RECURSIVE Filter(_, _)
Filter(s, keep) ==
  IF s = <<>> THEN <<>>
  ELSE (IF Head(keep) THEN <<Head(s)>> ELSE <<>>) \o Filter(Tail(s), Tail(keep))

\* ------------------------------------------------------------------------
\* Slices and their normalization
\* ------------------------------------------------------------------------

Slice(start, stop, step) ==
  [t |-> "slice", start |-> start, stop |-> stop, step |-> step]

Ix(i) == [t |-> "int", i |-> i]

Full == [t |-> "null"]

\* slice(a, b, c) with numbers
Sl(a, b, c) == Slice(<<a>>, <<b>>, <<c>>)

\* number of points of the concrete triple (start, stop, step)
SliceCount(start, stop, step) == Max(0, CeilDiv(stop - start, step))

\* a normalization whose default stop for a negative step is 0
NormalizeSliceStopsAtZero(sl, len) ==
  LET step == IF IsNull(sl.step) THEN 1 ELSE sl.step[1]
      lo == IF step > 0 THEN 0 ELSE -1
      hi == IF step > 0 THEN len ELSE len - 1
      Given(v) == Clamp(IF v < 0 THEN v + len ELSE v, lo, hi)
      start == IF IsNull(sl.start)
               THEN Clamp(IF step > 0 THEN 0 ELSE len - 1, lo, hi)
               ELSE Given(sl.start[1])
      stop == IF IsNull(sl.stop)
              THEN Clamp(IF step > 0 THEN len ELSE 0, lo, hi)
              ELSE Given(sl.stop[1])
  IN IF step = 0
     THEN [err |-> "InvalidSliceError", start |-> 0, stop |-> 0, step |-> 1, count |-> 0]
     ELSE [err |-> "", start |-> start, stop |-> stop, step |-> step,
           count |-> SliceCount(start, stop, step)]

NormalizeSlice(sl, len) ==
  LET step == IF IsNull(sl.step) THEN 1 ELSE sl.step[1]
      lo == IF step > 0 THEN 0 ELSE -1
      hi == IF step > 0 THEN len ELSE len - 1
      Given(v) == Clamp(IF v < 0 THEN v + len ELSE v, lo, hi)
      start == IF IsNull(sl.start)
               THEN Clamp(IF step > 0 THEN 0 ELSE len - 1, lo, hi)
               ELSE Given(sl.start[1])
      stop == IF IsNull(sl.stop)
              THEN Clamp(IF step > 0 THEN len ELSE -len - 1, lo, hi)
              ELSE Given(sl.stop[1])
  IN IF step = 0
     THEN [err |-> "InvalidSliceError", start |-> 0, stop |-> 0, step |-> 1, count |-> 0]
     ELSE [err |-> "", start |-> start, stop |-> stop, step |-> step,
           count |-> SliceCount(start, stop, step)]

NormalizeInt(i, len) ==
  LET j == IF i < 0 THEN i + len ELSE i
  IN IF j < 0 \/ j >= len THEN [err |-> "BoundsCheckError", i |-> 0]
     ELSE [err |-> "", i |-> j]

\* the indices a concrete dimension selection visits, in visiting order
DimPositions(d) ==
  IF d.t = "int" THEN <<d.i>>
  ELSE LET a == d.start[1]
           c == d.step[1]
       IN [k \in 1..SliceCount(a, d.stop[1], c) |-> a + (k - 1) * c]

\* ------------------------------------------------------------------------
\* Per-axis indexers and the basic indexer
\* ------------------------------------------------------------------------

NoOut == [t |-> "none"]

\* per-axis projections whose output ranges all start at 0
SliceProjectionsNoOffset(n, chunkLen) ==
  LET sign == IF n.step > 0 THEN 1 ELSE -1
      Pt(k) == n.start + (k - 1) * n.step
      Hit(c) == {k \in 1..n.count : Pt(k) \div chunkLen = c}
      cs == {Pt(k) \div chunkLen : k \in 1..n.count}
      Nth(j) == CHOOSE c \in cs : Cardinality({e \in cs : sign * e < sign * c}) = j - 1
  IN [j \in 1..Cardinality(cs) |->
        [chunkIdx |-> Nth(j),
         sel |-> Sl(Pt(CHOOSE k \in Hit(Nth(j)) : \A m \in Hit(Nth(j)) : k <= m) % chunkLen,
                    (Pt(CHOOSE k \in Hit(Nth(j)) : \A m \in Hit(Nth(j)) : k >= m) % chunkLen)
                      + sign,
                    n.step),
         out |-> Sl(0, Cardinality(Hit(Nth(j))), 1)]]

\* the per-axis projections of a normalized slice n: one per chunk that holds
\* at least one point of the progression, the chunks in the order in which
\* the progression meets them
SliceProjections(n, chunkLen) ==
  LET sign == IF n.step > 0 THEN 1 ELSE -1
      Pt(k) == n.start + (k - 1) * n.step
      cFirst == Pt(1) \div chunkLen
      cLast == Pt(n.count) \div chunkLen
      nSpan == IF n.count = 0 THEN 0 ELSE sign * (cLast - cFirst) + 1
      Hit(c) == {k \in 1..n.count : Pt(k) \div chunkLen = c}
      span == [j \in 1..nSpan |-> cFirst + sign * (j - 1)]
      Proj(c) ==
        LET kMin == CHOOSE k \in Hit(c) : \A m \in Hit(c) : k <= m
            kMax == CHOOSE k \in Hit(c) : \A m \in Hit(c) : k >= m
        IN [chunkIdx |-> c,
            sel |-> Sl(Pt(kMin) % chunkLen, (Pt(kMax) % chunkLen) + sign, n.step),
            out |-> Sl(kMin - 1, kMax, 1)]
      all == [j \in 1..nSpan |-> IF Hit(span[j]) = {} THEN <<>> ELSE <<Proj(span[j])>>]
  IN Filter([j \in 1..nSpan |-> IF all[j] = <<>> THEN NoOut ELSE all[j][1]],
            [j \in 1..nSpan |-> all[j] # <<>>])

SliceDimIndexer(sl, len, chunkLen) ==
  The({ [err |-> n.err, isInt |-> FALSE, numItems |-> n.count, step |-> n.step,
         projs |-> SliceProjections(n, chunkLen)] : n \in {NormalizeSlice(sl, len)} })

IntDimIndexer(i, len, chunkLen) ==
  LET n == NormalizeInt(i, len)
  IN [err |-> n.err, isInt |-> TRUE, numItems |-> 1, step |-> 1,
      projs |-> IF n.err # "" THEN <<>>
                ELSE <<[chunkIdx |-> n.i \div chunkLen,
                        sel |-> Ix(n.i % chunkLen),
                        out |-> NoOut]>>]

\* the selection right-padded with full-axis slices to the rank of the array
NormalizeArraySelection(sel, shape) ==
  [d \in 1..Max(Len(sel), Len(shape)) |-> IF d <= Len(sel) THEN sel[d] ELSE Full]

DimIndexers(sel, shape, chunks) ==
  LET ns == NormalizeArraySelection(sel, shape)
  IN [d \in 1..Len(shape) |->
        IF ns[d].t = "int" THEN IntDimIndexer(ns[d].i, shape[d], chunks[d])
        ELSE SliceDimIndexer(IF ns[d].t = "null" THEN Slice(Null, Null, Null) ELSE ns[d],
                             shape[d], chunks[d])]

\* BasicIndexer.iter: the row-major product of the per-axis projections
ChunkProjections(tuples, isSl) ==
  [k \in 1..Len(tuples) |->
     [chunkCoords |-> [d \in 1..Len(isSl) |-> tuples[k][d].chunkIdx],
      chunkSelection |-> [d \in 1..Len(isSl) |-> tuples[k][d].sel],
      outSelection |-> Filter([d \in 1..Len(isSl) |-> tuples[k][d].out], isSl)]]

IndexerOf(dims) ==
  LET D == Len(dims)
      bad == {d \in 1..D : dims[d].err # ""}
      isSl == [d \in 1..D |-> ~dims[d].isInt]
      drop == Filter([d \in 1..D |-> d - 1], [d \in 1..D |-> dims[d].isInt])
  IN IF bad # {}
     THEN [err |-> dims[CHOOSE d \in bad : \A e \in bad : d <= e].err,
           shape |-> <<>>, dropAxes |-> Null, steps |-> <<>>, projs |-> <<>>]
     ELSE [err |-> "",
           shape |-> Filter([d \in 1..D |-> dims[d].numItems], isSl),
           dropAxes |-> IF drop = <<>> THEN Null ELSE <<drop>>,
           steps |-> [d \in 1..D |-> dims[d].step],
           projs |-> The({ ChunkProjections(tuples, isSl) :
                           tuples \in {Product([d \in 1..D |-> dims[d].projs])} })]

\* BasicIndexer: shape, dropAxes and the stream of chunk projections
BasicIndexer(sel, shape, chunks) ==
  IF Len(sel) > Len(shape)
  THEN [err |-> "TooManyIndicesError", shape |-> <<>>, dropAxes |-> Null,
        steps |-> <<>>, projs |-> <<>>]
  ELSE The({ IndexerOf(dims) : dims \in {DimIndexers(sel, shape, chunks)} })

\* ------------------------------------------------------------------------
\* NestedArray
\* ------------------------------------------------------------------------

NestedArray(data, shape) == [t |-> "nd", shape |-> shape, data |-> data]

Num(v) == [t |-> "num", v |-> v]

\* new NestedArray(null, shape): a zero-initialised buffer
ZerosArray(shape) == NestedArray([k \in 1..Prod(shape) |-> 0], shape)

\* row-major offset of a coordinate tuple
RECURSIVE Offset(_, _)
Offset(shape, coord) ==
  IF shape = <<>> THEN 0
  ELSE Head(coord) * Prod(Tail(shape)) + Offset(Tail(shape), Tail(coord))

\* the coordinates a concrete selection visits, in row-major visiting order
SelCoords(csel) == Product([d \in 1..Len(csel) |-> DimPositions(csel[d])])

SelShape(csel) ==
  Filter([d \in 1..Len(csel) |-> Len(DimPositions(csel[d]))],
         [d \in 1..Len(csel) |-> csel[d].t = "slice"])

\* NestedArray.get: a number when every axis is dropped
NaGet(arr, csel) ==
  The({ IF SelShape(csel) = <<>> THEN Num(arr.data[Offset(arr.shape, cs[1]) + 1])
        ELSE NestedArray([k \in 1..Len(cs) |-> arr.data[Offset(arr.shape, cs[k]) + 1]],
                         SelShape(csel)) :
        cs \in {SelCoords(csel)} })

\* the positions of the flat buffer that the coordinates cs address, in order
Offsets(shape, cs) == [k \in 1..Len(cs) |-> Offset(shape, cs[k]) + 1]

\* NestedArray.set: a scalar is broadcast, an array is copied element by
\* element in the visiting order of the selection
NaSet(arr, csel, value) ==
  The({ NestedArray([p \in 1..Len(arr.data) |->
                       IF \E k \in 1..Len(at) : at[k] = p
                       THEN (IF value.t = "num" THEN value.v
                             ELSE value.data[CHOOSE k \in 1..Len(at) : at[k] = p])
                       ELSE arr.data[p]],
                    arr.shape) :
        at \in {Offsets(arr.shape, SelCoords(csel))} })

\* NestedArray.flatten: the elements in row-major order
Flatten(arr) == arr.data

\* ------------------------------------------------------------------------
\* util: isTotalSlice; indexing: isContiguousSelection
\* ------------------------------------------------------------------------

\* a null operand of a subtraction counts as 0
NumOrZero(x) == IF IsNull(x) THEN 0 ELSE x[1]

IsStepOne(sl) == IsNull(sl.step) \/ sl.step = <<1>>

\* isTotalSlice without its case of a slice with explicit bounds
IsTotalSliceNullBounds(item, shape) ==
  \A i \in 1..Min(Len(item), Len(shape)) :
     \/ item[i].t = "null"
     \/ /\ item[i].t = "slice"
        /\ IsStepOne(item[i])
        /\ IsNull(item[i].start) /\ IsNull(item[i].stop)

IsTotalSlice(item, shape) ==
  \A i \in 1..Min(Len(item), Len(shape)) :
     \/ item[i].t = "null"
     \/ /\ item[i].t = "slice"
        /\ IsStepOne(item[i])
        /\ \/ IsNull(item[i].start) /\ IsNull(item[i].stop)
           \/ NumOrZero(item[i].stop) - NumOrZero(item[i].start) = shape[i]

IsFullDim(d) == d.t = "null" \/ (d.t = "slice" /\ IsNull(d.start) /\ IsNull(d.stop))

IsContiguousSelection(sel) ==
  /\ \A i \in 1..Len(sel) : sel[i].t = "slice" => IsStepOne(sel[i])
  /\ \A i, j \in 1..Len(sel) :
        (i < j /\ sel[i].t = "slice" /\ ~IsFullDim(sel[i])) => IsFullDim(sel[j])

\* ------------------------------------------------------------------------
\* State
\* ------------------------------------------------------------------------

VARIABLES
  array,      \* the ZarrArray instance: readOnly, cacheMetadata, meta
  storeMeta,  \* the parsed content of the .zarray key of the store
  store,      \* chunk key -> chunk buffer, <<>> when the key is absent
  pending,    \* setItem requests the store has accepted and not yet applied
  ops,        \* slot -> the get/set call in flight on the instance
  nops,       \* calls started so far
  prev,       \* what the client keeps of its previous call
  probe       \* a direct call of a function of the library and its result

vars == <<array, storeMeta, store, pending, ops, nops, prev, probe>>

Slots == {1, 2}

Absent == <<>>

MetaKey == <<-1>>

Configs ==
  { [shape |-> <<3>>, chunks |-> <<2>>],
    [shape |-> <<2, 3>>, chunks |-> <<1, 2>>] }

FillValues == {Null, <<5>>}

\* the coordinates of an array of the given shape in row-major order
AllCoords(shape) == Product([d \in 1..Len(shape) |-> [k \in 1..shape[d] |-> k - 1]])

ChunkDataShape(meta) ==
  [d \in 1..Len(meta.shape) |-> CeilDiv(meta.shape[d], meta.chunks[d])]

ChunkKeys(meta) == {AllCoords(ChunkDataShape(meta))[k] :
                      k \in 1..Prod(ChunkDataShape(meta))}

\* a stored chunk: element e of the array holds 10 + its row-major offset,
\* the elements of an edge chunk past the end of the array hold 90 + position
StoredChunk(meta, cc) ==
  LET D == Len(meta.shape)
      local == AllCoords(meta.chunks)
      G(p) == [d \in 1..D |-> cc[d] * meta.chunks[d] + local[p][d]]
  IN [p \in 1..Prod(meta.chunks) |->
        IF \A d \in 1..D : G(p)[d] < meta.shape[d]
        THEN 10 + Offset(meta.shape, G(p))
        ELSE 90 + p]

\* the chunk keys present at the start: none, all, all but the first, the first
InitialKeySets(meta) ==
  LET first == [d \in 1..Len(meta.shape) |-> 0]
  IN {{}, ChunkKeys(meta), ChunkKeys(meta) \ {first}, {first}}

\* the compressor of the metadata: none, or one codec
Compressors == {Null, <<"codec">>}

\* getCodec: the codec of a compressor descriptor
GetCodec(compressor) == compressor

\* the codec adds 100 to every element on encode and takes it off on decode
EncodeWith(codec, chunk) ==
  IF codec = Null THEN chunk ELSE [p \in 1..Len(chunk) |-> chunk[p] + 100]

DecodeWith(codec, data) ==
  IF codec = Null THEN data ELSE [p \in 1..Len(data) |-> data[p] - 100]

\* decodeChunk and encodeChunk work with the codec the instance holds
DecodeChunk(arr, cdata) == DecodeWith(arr.compressor, cdata)

EncodeChunk(arr, chunk) == EncodeWith(arr.compressor, chunk)

IdleOp ==
  [id |-> 0, kind |-> "idle", pc |-> "idle", sel |-> <<>>, value |-> Num(0),
   shape |-> <<>>, dropAxes |-> Null, steps |-> <<>>, projs |-> <<>>, i |-> 0,
   out |-> ZerosArray(<<0>>), err |-> "", result |-> Num(0), log |-> <<>>,
   got |-> <<>>, store0 |-> <<>>, quiet |-> TRUE, dirty |-> FALSE, meta0 |-> <<>>]

\* no function is being called directly
NoProbe == [fn |-> "none", shape |-> <<>>, chunks |-> <<>>, sel |-> <<>>, res |-> <<>>]

NoPrev ==
  [id |-> 0, kind |-> "idle", pc |-> "idle", sel |-> <<>>, value |-> Num(0),
   err |-> "", result |-> Num(0), store0 |-> <<>>, quiet |-> TRUE, dirty |-> FALSE]

Init ==
  /\ \E c \in Configs, f \in FillValues, ro \in BOOLEAN, cm \in BOOLEAN :
       /\ storeMeta = [shape |-> c.shape, chunks |-> c.chunks, fill_value |-> f,
                       filters |-> Null, compressor |-> Null]
       /\ array = [readOnly |-> ro, cacheMetadata |-> cm, meta |-> storeMeta,
                   compressor |-> GetCodec(storeMeta.compressor)]
       /\ \E present \in InitialKeySets(storeMeta) :
            store = [k \in ChunkKeys(storeMeta) |->
                       IF k \in present THEN StoredChunk(storeMeta, k) ELSE Absent]
  /\ pending = {}
  /\ ops = [s \in Slots |-> IdleOp]
  /\ nops = 0
  /\ prev = NoPrev
  /\ probe = NoProbe

\* ------------------------------------------------------------------------
\* The client: what it may pass to get and set
\* ------------------------------------------------------------------------

Selections(shape) ==
  IF Len(shape) = 1
  THEN { <<Full>>,
         <<Slice(<<1>>, Null, Null)>>,
         <<Slice(Null, <<2>>, Null)>>,
         <<Slice(Null, Null, <<2>>)>>,
         <<Slice(Null, Null, <<-1>>)>>,
         <<Slice(<<0>>, <<0>>, Null)>>,
         <<Ix(-1)>>,
         <<Ix(3)>> }
  ELSE { <<>>,
         <<Slice(<<-1>>, <<9>>, Null), Slice(Null, <<2>>, Null)>>,
         <<Slice(<<1>>, Null, Null), Slice(<<1>>, Null, Null)>>,
         <<Slice(Null, Null, <<-1>>), Full>>,
         <<Full, Slice(Null, Null, <<-1>>)>>,
         <<Full, Slice(<<0>>, <<0>>, Null)>>,
         <<Slice(<<0>>, <<0>>, Null)>>,
         <<Ix(1)>>,
         <<Ix(0), Ix(-1)>> }

\* a NestedArray of the shape the selection yields, element k holding 20 + k
FreshValue(sel, meta) ==
  LET shp == BasicIndexer(sel, meta.shape, meta.chunks).shape
  IN NestedArray([k \in 1..Prod(shp) |-> 20 + k], shp)

\* a NestedArray whose shape is not the shape the selection yields
MisshapenValue(sel, meta) ==
  LET n == Prod(BasicIndexer(sel, meta.shape, meta.chunks).shape) + 1
  IN NestedArray([k \in 1..n |-> 30 + k], <<n>>)

\* a value that is neither a number nor a NestedArray, such as a typed array
OtherValue == [t |-> "other"]

\* the values the client passes to set: a scalar, a fresh array of the
\* selection's shape, or what its previous get returned
SetValues(last, sel) ==
  {Num(7), FreshValue(sel, storeMeta), MisshapenValue(sel, storeMeta), OtherValue}
    \cup (IF last.kind = "get" /\ last.pc = "done" THEN {last.result} ELSE {})

\* the client awaits each call before starting the next
Ready(s) == ops[s].pc \in {"idle", "done", "failed"} /\ nops < MaxOps

\* and it keeps working on the selection it started with
CanStart(s, sel) ==
  /\ Ready(s)
  /\ sel \in Selections(storeMeta.shape)
  /\ nops = 0 \/ sel = ops[s].sel

Summary(op) ==
  [id |-> op.id, kind |-> op.kind, pc |-> op.pc, sel |-> op.sel, value |-> op.value,
   err |-> op.err, result |-> op.result, store0 |-> op.store0, quiet |-> op.quiet,
   dirty |-> op.dirty]

\* ------------------------------------------------------------------------
\* ZarrArray: get
\* ------------------------------------------------------------------------

Req(req, key, data) == [req |-> req, key |-> key, data |-> data]

FillValue(meta) == meta.fill_value

Fail(op, err) == [op EXCEPT !.pc = "failed", !.err = err]

WithIndexer(op, ix) ==
  [op EXCEPT !.shape = ix.shape, !.dropAxes = ix.dropAxes, !.steps = ix.steps,
             !.projs = ix.projs]

\* getSelection after its loop: a scalar instead of a zero-dimensional array
GetReturn(op) ==
  [op EXCEPT !.pc = "done",
             !.result = IF op.out.shape = <<>> THEN Num(op.out.data[1]) ELSE op.out]

\* a getSelection that takes an empty result for a zero-dimensional one and
\* returns its first element
GetSelectionEmptyAsScalar(op, meta) ==
  LET ix == BasicIndexer(op.sel, meta.shape, meta.chunks)
      o == [WithIndexer(op, ix) EXCEPT !.out = ZerosArray(ix.shape)]
  IN IF ix.err # "" THEN Fail(op, ix.err)
     ELSE IF Prod(ix.shape) = 0 THEN [o EXCEPT !.pc = "done", !.result = Num(0)]
     ELSE [o EXCEPT !.pc = "contains", !.i = 1]

\* getBasicSelectionND and getSelection up to the first chunkGetItem
GetSelection(op, meta) ==
  LET ix == BasicIndexer(op.sel, meta.shape, meta.chunks)
      o == [WithIndexer(op, ix) EXCEPT !.out = ZerosArray(ix.shape)]
  IN IF ix.err # "" THEN Fail(op, ix.err)
     ELSE IF Prod(ix.shape) = 0 THEN [o EXCEPT !.pc = "done", !.result = o.out]
     ELSE [o EXCEPT !.pc = "contains", !.i = 1]

\* a projection loop that leaves out every other chunk
NextChunkGetSkipping(op) ==
  IF op.i + 1 < Len(op.projs) THEN [op EXCEPT !.i = op.i + 2, !.pc = "contains"]
  ELSE GetReturn(op)

\* the projection loop of getSelection moving on
NextChunkGet(op) ==
  IF op.i < Len(op.projs) THEN [op EXCEPT !.i = op.i + 1, !.pc = "contains"]
  ELSE GetReturn(op)

\* a chunkGetItem that leaves the output as allocated for an absent chunk
ChunkGetItemContainsNoFill(op, meta, st) ==
  LET cKey == op.projs[op.i].chunkCoords
      asked == [op EXCEPT !.log = Append(op.log, Req("containsItem", cKey, <<>>))]
  IN IF st[cKey] # Absent
     THEN [asked EXCEPT !.pc = "getItem",
                        !.log = Append(asked.log, Req("getItem", cKey, <<>>))]
     ELSE NextChunkGet(asked)

\* chunkGetItem up to the answer of containsItem
ChunkGetItemContains(op, meta, st) ==
  LET proj == op.projs[op.i]
      cKey == proj.chunkCoords
      asked == [op EXCEPT !.log = Append(op.log, Req("containsItem", cKey, <<>>))]
  IN IF st[cKey] # Absent
     THEN [asked EXCEPT !.pc = "getItem",
                        !.log = Append(asked.log, Req("getItem", cKey, <<>>))]
     ELSE NextChunkGet(
            IF FillValue(meta) # Null
            THEN [asked EXCEPT !.out = NaSet(asked.out, proj.outSelection,
                                             Num(FillValue(meta)[1]))]
            ELSE asked)

\* a chunkGetItem that stores the chunk it decoded back under its key
ChunkGetItemDecodeWriteBack(op, meta, cdata) ==
  LET proj == op.projs[op.i]
      seen == [op EXCEPT !.got = Append(op.got, Req("getItem", proj.chunkCoords, cdata)),
                         !.log = Append(op.log, Req("setItem", proj.chunkCoords, cdata))]
  IN IF op.dropAxes # Null THEN Fail(seen, "Error")
     ELSE NextChunkGet([seen EXCEPT !.out =
            NaSet(seen.out, proj.outSelection,
                  NaGet(NestedArray(cdata, meta.chunks), proj.chunkSelection))])

\* a chunkGetItem whose fast path does not ask whether the chunk selection
\* covers the chunk
ChunkGetItemDecodeContiguousOnly(op, meta, cdata) ==
  LET proj == op.projs[op.i]
      chunk == NestedArray(cdata, meta.chunks)
      seen == [op EXCEPT !.got = Append(op.got, Req("getItem", proj.chunkCoords, cdata))]
  IN IF /\ IsContiguousSelection(proj.outSelection)
        /\ meta.filters = Null
     THEN NextChunkGet([seen EXCEPT !.out = NaSet(seen.out, proj.outSelection, chunk)])
     ELSE IF op.dropAxes # Null THEN Fail(seen, "Error")
     ELSE NextChunkGet([seen EXCEPT !.out = NaSet(seen.out, proj.outSelection,
                                                  NaGet(chunk, proj.chunkSelection))])

\* chunkGetItem from the answer of getItem on
ChunkGetItemDecode(op, meta, cdata) ==
  LET proj == op.projs[op.i]
      chunk == NestedArray(cdata, meta.chunks)
      seen == [op EXCEPT !.got = Append(op.got, Req("getItem", proj.chunkCoords, cdata))]
  IN IF /\ IsContiguousSelection(proj.outSelection)
        /\ IsTotalSlice(proj.chunkSelection, meta.chunks)
        /\ meta.filters = Null
     THEN NextChunkGet([seen EXCEPT !.out = NaSet(seen.out, proj.outSelection, chunk)])
     ELSE IF op.dropAxes # Null THEN Fail(seen, "Error")
     ELSE NextChunkGet([seen EXCEPT !.out = NaSet(seen.out, proj.outSelection,
                                                  NaGet(chunk, proj.chunkSelection))])

\* getBasicSelection up to its first answer from the store
GetBasicSelection(op, arr) ==
  IF arr.cacheMetadata THEN GetSelection(op, arr.meta)
  ELSE [op EXCEPT !.pc = "meta", !.log = <<Req("getItem", MetaKey, <<>>)>>]

StartGet(s, sel) ==
  /\ CanStart(s, sel)
  /\ ops' = [ops EXCEPT ![s] =
               GetBasicSelection([IdleOp EXCEPT !.id = nops + 1, !.kind = "get",
                                                !.sel = sel, !.store0 = store,
                                                !.quiet = (pending = {}),
                                                !.meta0 = array.meta],
                                 array)]
  /\ nops' = nops + 1
  /\ prev' = Summary(ops[s])
  /\ UNCHANGED <<probe, array, storeMeta, store, pending>>

GetContains(s) ==
  /\ ops[s].kind = "get" /\ ops[s].pc = "contains"
  /\ ops' = [ops EXCEPT ![s] = ChunkGetItemContains(ops[s], array.meta, store)]
  /\ UNCHANGED <<probe, array, storeMeta, store, pending, nops, prev>>

GetItemOk(s) ==
  /\ ops[s].kind = "get" /\ ops[s].pc = "getItem"
  /\ ops' = [ops EXCEPT ![s] =
               ChunkGetItemDecode(ops[s], array.meta,
                                  DecodeChunk(array,
                                              store[ops[s].projs[ops[s].i].chunkCoords]))]
  /\ UNCHANGED <<probe, array, storeMeta, store, pending, nops, prev>>

\* the store answers a getItem (of get or of set) with an error of its own
GetItemStoreError(s) ==
  /\ ops[s].pc \in {"getItem", "rmw"}
  /\ ops' = [ops EXCEPT ![s] = Fail(ops[s], "StoreError")]
  /\ UNCHANGED <<probe, array, storeMeta, store, pending, nops, prev>>

\* ------------------------------------------------------------------------
\* ZarrArray: set
\* ------------------------------------------------------------------------

ChunkSize(meta) == Prod(meta.chunks)

\* a projection loop whose bound leaves out the last projection
NextChunkSetStopsEarly(op) ==
  IF op.i < Len(op.projs) - 1 THEN [op EXCEPT !.i = op.i + 1, !.pc = "chunk"]
  ELSE [op EXCEPT !.pc = "done"]

\* the projection loop of setSelection moving on
NextChunkSet(op) ==
  IF op.i < Len(op.projs) THEN [op EXCEPT !.i = op.i + 1, !.pc = "chunk"]
  ELSE [op EXCEPT !.pc = "done"]

\* setBasicSelectionND and setSelection up to the projection loop
SetSelection(op, meta) ==
  LET ix == BasicIndexer(op.sel, meta.shape, meta.chunks)
      o == WithIndexer(op, ix)
  IN IF ix.err # "" THEN Fail(op, ix.err)
     ELSE IF op.value.t = "num" THEN NextChunkSet(o)
     ELSE IF op.value.t = "nd"
     THEN (IF op.value.shape # ix.shape THEN Fail(o, "ValueError") ELSE NextChunkSet(o))
     ELSE Fail(o, "Error")

\* the part of the value that goes into the chunk of the current projection
ChunkValue(op) ==
  IF op.value.t = "num" THEN op.value
  ELSE NaGet(op.value, op.projs[op.i].outSelection)

\* setSelection throws when an array value meets an indexer that drops axes
DropAxesUnsupported(op) == op.value.t # "num" /\ op.dropAxes # Null

\* a total-slice branch that stores the whole value, not its part for the chunk
TotalChunkWholeValue(op, meta) ==
  IF op.value.t = "num" THEN [p \in 1..ChunkSize(meta) |-> op.value.v]
  ELSE Flatten(op.value)

\* a total-slice branch that fills the buffer for a scalar only
TotalChunkScalarOnly(op, meta) ==
  [p \in 1..ChunkSize(meta) |-> IF op.value.t = "num" THEN op.value.v ELSE 0]

\* chunkSetItem, total-slice branch: the chunk is built without a read
TotalChunk(op, meta) ==
  LET v == ChunkValue(op)
  IN IF v.t = "num" THEN [p \in 1..ChunkSize(meta) |-> v.v] ELSE Flatten(v)

\* a partial branch that leaves the buffer of an absent chunk unfilled
ExistingChunkUnfilled(meta, cdata) ==
  IF cdata # Absent THEN cdata ELSE [p \in 1..ChunkSize(meta) |-> 0]

\* chunkSetItem, partial branch: the buffer the selection is written into
ExistingChunk(meta, cdata) ==
  IF cdata # Absent THEN cdata
  ELSE [p \in 1..ChunkSize(meta) |->
          IF FillValue(meta) # Null THEN FillValue(meta)[1] ELSE 0]

\* a partial branch that writes into a fresh buffer, not into the chunk read
PartialChunkFresh(op, meta, cdata) ==
  Flatten(NaSet(NestedArray(ExistingChunk(meta, Absent), meta.chunks),
                op.projs[op.i].chunkSelection, ChunkValue(op)))

PartialChunk(op, meta, cdata) ==
  Flatten(NaSet(NestedArray(ExistingChunk(meta, cdata), meta.chunks),
                op.projs[op.i].chunkSelection, ChunkValue(op)))

\* chunkStore.setItem(chunkKey, chunkData): the request is handed to the
\* store and chunkSetItem goes on without waiting for it
SetItem(op, chunk) ==
  LET cKey == op.projs[op.i].chunkCoords
  IN [op EXCEPT !.log = Append(op.log, Req("setItem", cKey, chunk))]

Write(op, chunk) == [key |-> op.projs[op.i].chunkCoords, data |-> chunk, by |-> op.id]

\* setBasicSelection without its read-only guard
SetBasicSelectionUnguarded(op, arr) ==
  IF arr.cacheMetadata THEN SetSelection(op, arr.meta)
  ELSE [op EXCEPT !.pc = "meta", !.log = <<Req("getItem", MetaKey, <<>>)>>]

\* setBasicSelection up to its first answer from the store
SetBasicSelection(op, arr) ==
  IF arr.readOnly THEN Fail(op, "PermissionError")
  ELSE IF arr.cacheMetadata THEN SetSelection(op, arr.meta)
  ELSE [op EXCEPT !.pc = "meta", !.log = <<Req("getItem", MetaKey, <<>>)>>]

StartSet(s, sel, value) ==
  /\ CanStart(s, sel)
  /\ ops' = [ops EXCEPT ![s] =
               SetBasicSelection([IdleOp EXCEPT !.id = nops + 1, !.kind = "set",
                                                !.sel = sel, !.value = value,
                                                !.store0 = store,
                                                !.quiet = (pending = {}),
                                                !.meta0 = array.meta],
                                 array)]
  /\ nops' = nops + 1
  /\ prev' = Summary(ops[s])
  /\ UNCHANGED <<probe, array, storeMeta, store, pending>>

\* reloadMetadata answered: the instance takes the parsed metadata
ReloadMetadata(s) ==
  /\ ops[s].pc = "meta"
  /\ array' = [array EXCEPT !.meta = storeMeta]
  /\ ops' = [ops EXCEPT ![s] = IF ops[s].kind = "get"
                               THEN GetSelection(ops[s], storeMeta)
                               ELSE SetSelection(ops[s], storeMeta)]
  /\ UNCHANGED <<probe, storeMeta, store, pending, nops, prev>>

SetDropAxes(s) ==
  /\ ops[s].kind = "set" /\ ops[s].pc = "chunk"
  /\ DropAxesUnsupported(ops[s])
  /\ ops' = [ops EXCEPT ![s] = Fail(ops[s], "Error")]
  /\ UNCHANGED <<probe, array, storeMeta, store, pending, nops, prev>>

\* chunkSetItem, total-slice branch, over a store that holds at most cap
\* writes at a time
SetChunkTotalWithin(s, cap) ==
  /\ ops[s].kind = "set" /\ ops[s].pc = "chunk"
  /\ ~DropAxesUnsupported(ops[s])
  /\ IsTotalSlice(ops[s].projs[ops[s].i].chunkSelection, array.meta.chunks)
  /\ Cardinality(pending) < cap
  /\ LET chunk == EncodeChunk(array, TotalChunk(ops[s], array.meta))
     IN /\ pending' = pending \cup {Write(ops[s], chunk)}
        /\ ops' = [ops EXCEPT ![s] = NextChunkSet(SetItem(ops[s], chunk))]
  /\ UNCHANGED <<probe, array, storeMeta, store, nops, prev>>

SetChunkTotal(s) == SetChunkTotalWithin(s, MaxPending)

SetChunkPartial(s) ==
  /\ ops[s].kind = "set" /\ ops[s].pc = "chunk"
  /\ ~DropAxesUnsupported(ops[s])
  /\ ~IsTotalSlice(ops[s].projs[ops[s].i].chunkSelection, array.meta.chunks)
  /\ ops' = [ops EXCEPT ![s] =
               [ops[s] EXCEPT !.pc = "rmw",
                  !.log = Append(ops[s].log,
                            Req("getItem", ops[s].projs[ops[s].i].chunkCoords, <<>>))]]
  /\ UNCHANGED <<probe, array, storeMeta, store, pending, nops, prev>>

\* the getItem of the partial branch answered with the chunk or a KeyError,
\* over a store that holds at most cap writes at a time
SetChunkRmwWithin(s, cap) ==
  /\ ops[s].kind = "set" /\ ops[s].pc = "rmw"
  /\ Cardinality(pending) < cap
  /\ LET cKey == ops[s].projs[ops[s].i].chunkCoords
         chunk == EncodeChunk(array,
                              PartialChunk(ops[s], array.meta,
                                           DecodeChunk(array, store[cKey])))
         seen == [ops[s] EXCEPT !.got = Append(ops[s].got,
                                               Req("getItem", cKey, store[cKey]))]
     IN /\ pending' = pending \cup {Write(ops[s], chunk)}
        /\ ops' = [ops EXCEPT ![s] = NextChunkSet(SetItem(seen, chunk))]
  /\ UNCHANGED <<probe, array, storeMeta, store, nops, prev>>

SetChunkRmw(s) == SetChunkRmwWithin(s, MaxPending)

\* ------------------------------------------------------------------------
\* The store applying a write it had accepted
\* ------------------------------------------------------------------------

Land(w) ==
  /\ w \in pending
  /\ store' = [store EXCEPT ![w.key] = w.data]
  /\ pending' = pending \ {w}
  /\ ops' = [s \in Slots |->
               IF ops[s].kind = "idle" THEN ops[s] ELSE [ops[s] EXCEPT !.dirty = TRUE]]
  /\ UNCHANGED <<probe, array, storeMeta, nops, prev>>

\* ------------------------------------------------------------------------
\* One client calling get and set in sequence
\* ------------------------------------------------------------------------

Call(s) ==
  /\ Ready(s)
  /\ \E sel \in Selections(storeMeta.shape) :
       \/ StartGet(s, sel)
       \/ \E value \in SetValues(ops[s], sel) : StartSet(s, sel, value)

Step(s) ==
  \/ Call(s)
  \/ ReloadMetadata(s)
  \/ GetContains(s)
  \/ GetItemOk(s)
  \/ GetItemStoreError(s)
  \/ SetDropAxes(s)
  \/ SetChunkTotal(s)
  \/ SetChunkPartial(s)
  \/ SetChunkRmw(s)

Next ==
  \/ Step(1)
  \/ \E w \in pending : Land(w)

Spec == Init /\ [][Next]_vars

\* ------------------------------------------------------------------------
\* An instance whose metadata was changed in the store after construction
\* ------------------------------------------------------------------------

\* as Init, but the instance was constructed over an array without
\* compressor that has since been rewritten, possibly with another fill value
\* and with a compressor
InitStale ==
  /\ \E c \in Configs, f \in FillValues, g \in FillValues, z \in Compressors,
        ro \in BOOLEAN, cm \in BOOLEAN :
       /\ storeMeta = [shape |-> c.shape, chunks |-> c.chunks, fill_value |-> f,
                       filters |-> Null, compressor |-> z]
       /\ array = [readOnly |-> ro, cacheMetadata |-> cm,
                   meta |-> [storeMeta EXCEPT !.fill_value = g, !.compressor = Null],
                   compressor |-> GetCodec(Null)]
       /\ \E present \in InitialKeySets(storeMeta) :
            store = [k \in ChunkKeys(storeMeta) |->
                       IF k \in present
                       THEN EncodeWith(GetCodec(z), StoredChunk(storeMeta, k))
                       ELSE Absent]
  /\ pending = {}
  /\ ops = [s \in Slots |-> IdleOp]
  /\ nops = 0
  /\ prev = NoPrev
  /\ probe = NoProbe

SpecStale == InitStale /\ [][Next]_vars

\* ------------------------------------------------------------------------
\* The functions of the library called on their own
\* ------------------------------------------------------------------------

\* rangeTypedArray: an array of the shape holding 0 .. product(shape) - 1
RangeArray(shape) == NestedArray([k \in 1..Prod(shape) |-> k - 1], shape)

\* one axis of a selection with its bounds made concrete for an axis length
NormalizeAxis(d, len) ==
  IF d.t = "int"
  THEN The({ [err |-> n.err, sel |-> Ix(n.i)] : n \in {NormalizeInt(d.i, len)} })
  ELSE The({ [err |-> n.err, sel |-> Sl(n.start, n.stop, n.step)] :
             n \in {NormalizeSlice(IF d.t = "null" THEN Slice(Null, Null, Null) ELSE d,
                                   len)} })

\* sliceNestedArray(arr, shape, selection): the selected elements and their
\* shape, a number when every axis is indexed by an integer
SliceNestedArray(arr, sel) ==
  IF Len(sel) > Len(arr.shape)
  THEN [err |-> "TooManyIndicesError", result |-> Num(0)]
  ELSE The({ IF \E d \in 1..Len(ns) : ns[d].err # ""
             THEN [err |-> ns[CHOOSE d \in 1..Len(ns) :
                              ns[d].err # "" /\ \A e \in 1..(d - 1) : ns[e].err = ""].err,
                   result |-> Num(0)]
             ELSE [err |-> "", result |-> NaGet(arr, [d \in 1..Len(ns) |-> ns[d].sel])] :
             ns \in {[d \in 1..Len(arr.shape) |->
                       NormalizeAxis(NormalizeArraySelection(sel, arr.shape)[d],
                                     arr.shape[d])]} })

\* the longest axis and the longest chunk the calls are made with
MaxLen == 4

MaxChunkLen == 3

\* the start and stop values the calls are made with
ProbeBounds == {Null, <<-4>>, <<-3>>, <<-1>>, <<0>>, <<1>>, <<2>>, <<3>>, <<5>>}

ProbeSteps == {Null, <<1>>, <<2>>, <<-1>>, <<-2>>}

ProbeSlices == {Slice(a, b, c) : a \in ProbeBounds, b \in ProbeBounds, c \in ProbeSteps}

ProbeAxes == {Full} \cup {Ix(i) : i \in -3..3} \cup ProbeSlices

\* the axis selections the calls on arrays of two dimensions are made with
ProbeAxes2 ==
  { Full, Ix(0), Ix(-1), Ix(1), Ix(3),
    Slice(Null, Null, <<-1>>), Slice(<<0>>, <<0>>, Null), Slice(<<1>>, Null, Null),
    Slice(Null, <<2>>, Null), Slice(<<-1>>, <<9>>, Null), Slice(<<2>>, <<0>>, <<-2>>),
    Slice(<<0>>, Null, <<2>>) }

\* slice(start, stop) and slice(null) of the tests
Sl2(a, b) == Slice(<<a>>, <<b>>, Null)

All == Slice(Null, Null, Null)

Rev == Slice(Null, Null, <<-1>>)

Case(shape, selection, expected, expectedShape) ==
  [shape |-> shape, selection |-> selection, expected |-> expected,
   expectedShape |-> expectedShape]

\* the table of the slicing tests: expected holds the expected elements in
\* row-major order, expectedShape the shape the test derives or states
TestCases ==
  << Case(<<3>>, <<All>>, <<0, 1, 2>>, <<3>>),
     Case(<<3>>, <<Slice(Null, Null, <<1>>)>>, <<0, 1, 2>>, <<3>>),
     Case(<<3>>, <<Sl2(1, 3)>>, <<1, 2>>, <<2>>),
     Case(<<3>>, <<Sl2(0, 100)>>, <<0, 1, 2>>, <<3>>),
     Case(<<3>>, <<Sl2(5, 100)>>, <<>>, <<0>>),
     Case(<<5>>, <<Slice(<<1>>, Null, <<2>>)>>, <<1, 3>>, <<2>>),
     Case(<<5>>, <<Sl(5, 2, -1)>>, <<4, 3>>, <<2>>),
     Case(<<5>>, <<Sl(4, 0, -1)>>, <<4, 3, 2, 1>>, <<4>>),
     Case(<<5>>, <<Sl(4, 0, -2)>>, <<4, 2>>, <<2>>),
     Case(<<5>>, <<Rev>>, <<4, 3, 2, 1, 0>>, <<5>>),
     Case(<<5>>, <<Slice(Null, <<-3>>, <<-1>>)>>, <<4, 3>>, <<2>>),
     Case(<<5>>, <<Slice(Null, <<-3>>, <<-2>>)>>, <<4>>, <<1>>),
     Case(<<2, 3>>, <<All>>, <<0, 1, 2, 3, 4, 5>>, <<2, 3>>),
     Case(<<2, 3>>, <<All, All>>, <<0, 1, 2, 3, 4, 5>>, <<2, 3>>),
     Case(<<2, 3>>, <<Rev, All>>, <<3, 4, 5, 0, 1, 2>>, <<2, 3>>),
     Case(<<2, 3>>, <<Sl2(0, 0)>>, <<>>, <<0, 3>>),
     Case(<<2, 3>>, <<All, Sl2(0, 0)>>, <<>>, <<2, 0>>),
     Case(<<2, 3>>, <<Sl2(0, 1), All>>, <<0, 1, 2>>, <<1, 3>>),
     Case(<<2, 3>>, <<Sl2(1, 2), All>>, <<3, 4, 5>>, <<1, 3>>),
     Case(<<2, 3>>, <<Sl2(1, 2), Sl2(0, 2)>>, <<3, 4>>, <<1, 2>>),
     Case(<<2, 3>>, <<Sl2(1, 2), Slice(Null, <<0>>, <<-1>>)>>, <<5, 4>>, <<1, 2>>),
     Case(<<2, 3>>, <<Sl2(1, 2), Rev>>, <<5, 4, 3>>, <<1, 3>>),
     Case(<<2, 3>>, <<Ix(0), Rev>>, <<2, 1, 0>>, <<3>>),
     Case(<<1, 2, 2, 4>>, <<All, All, All, All>>,
          <<0, 1, 2, 3, 4, 5, 6, 7, 8, 9, 10, 11, 12, 13, 14, 15>>, <<1, 2, 2, 4>>),
     Case(<<1, 2, 2, 4>>, <<All, Rev, All, All>>,
          <<8, 9, 10, 11, 12, 13, 14, 15, 0, 1, 2, 3, 4, 5, 6, 7>>, <<1, 2, 2, 4>>),
     Case(<<1, 2, 2, 4>>, <<All, Slice(Null, Null, <<-5>>), All, All>>,
          <<8, 9, 10, 11, 12, 13, 14, 15>>, <<1, 1, 2, 4>>),
     Case(<<1, 2, 2, 4>>, <<All, Slice(Null, Null, <<-5>>), All, Sl2(0, 2)>>,
          <<8, 9, 12, 13>>, <<1, 1, 2, 2>>),
     Case(<<1, 2, 2, 4>>, <<Ix(0)>>,
          <<0, 1, 2, 3, 4, 5, 6, 7, 8, 9, 10, 11, 12, 13, 14, 15>>, <<2, 2, 4>>),
     Case(<<3>>, <<Ix(1)>>, <<1>>, <<>>),
     Case(<<3>>, <<Ix(-1)>>, <<2>>, <<>>),
     Case(<<2, 3>>, <<Ix(1)>>, <<3, 4, 5>>, <<3>>),
     Case(<<2, 3>>, <<All, Ix(0)>>, <<0, 3>>, <<2>>),
     Case(<<2, 3>>, <<Ix(-2), Ix(-1)>>, <<2>>, <<>>),
     Case(<<1, 2, 2, 4>>, <<Ix(0), Ix(0), All, Ix(0)>>, <<0, 4>>, <<2>>),
     Case(<<1, 2, 2, 4>>, <<Ix(0), Ix(1), All, Ix(0)>>, <<8, 12>>, <<2>>),
     Case(<<1, 2, 2, 4>>, <<Ix(0), Sl2(5, 5), All>>, <<>>, <<0, 2, 4>>) >>

\* the chunk grid the calls on the shapes of the tests are made with
TestChunks(shape) == [d \in 1..Len(shape) |-> Min(2, shape[d])]

ProbeInputs ==
  { [shape |-> <<n>>, chunks |-> <<c>>, sel |-> <<a>>] :
      n \in 0..MaxLen, c \in 1..MaxChunkLen, a \in ProbeAxes }
  \cup { [shape |-> <<2, 3>>, chunks |-> c, sel |-> sel] :
           c \in {<<1, 2>>, <<2, 2>>},
           sel \in {<<>>} \cup {<<a>> : a \in ProbeAxes2}
                    \cup {<<a, b>> : a \in ProbeAxes2, b \in ProbeAxes2} }
  \cup { [shape |-> TestCases[k].shape, chunks |-> TestChunks(TestCases[k].shape),
          sel |-> TestCases[k].selection] : k \in 1..Len(TestCases) }

\* an instance that no call is made on
IdleMeta ==
  [shape |-> <<3>>, chunks |-> <<2>>, fill_value |-> Null, filters |-> Null,
   compressor |-> Null]

InitPure ==
  /\ \E in \in ProbeInputs :
       probe = [fn |-> "none", shape |-> in.shape, chunks |-> in.chunks,
                sel |-> in.sel, res |-> <<>>]
  /\ storeMeta = IdleMeta
  /\ array = [readOnly |-> FALSE, cacheMetadata |-> TRUE, meta |-> IdleMeta,
              compressor |-> Null]
  /\ store = [k \in ChunkKeys(IdleMeta) |-> Absent]
  /\ pending = {}
  /\ ops = [s \in Slots |-> IdleOp]
  /\ nops = 0
  /\ prev = NoPrev

ApplyBasicIndexer ==
  /\ probe.fn = "none"
  /\ probe' = [probe EXCEPT !.fn = "BasicIndexer",
                            !.res = BasicIndexer(probe.sel, probe.shape, probe.chunks)]
  /\ UNCHANGED <<array, storeMeta, store, pending, ops, nops, prev>>

ApplySliceNestedArray ==
  /\ probe.fn = "none"
  /\ probe' = [probe EXCEPT !.fn = "sliceNestedArray",
                            !.res = SliceNestedArray(RangeArray(probe.shape), probe.sel)]
  /\ UNCHANGED <<array, storeMeta, store, pending, ops, nops, prev>>

ApplyIsTotalSlice ==
  /\ probe.fn = "none"
  /\ probe' = [probe EXCEPT !.fn = "isTotalSlice",
                            !.res = IsTotalSlice(probe.sel, probe.shape)]
  /\ UNCHANGED <<array, storeMeta, store, pending, ops, nops, prev>>

\* the metadata of the array a probe reads: no filters, no compressor
ProbeMeta ==
  [shape |-> probe.shape, chunks |-> probe.chunks, fill_value |-> Null,
   filters |-> Null, compressor |-> Null]

\* the loop of getSelection over a store that holds every chunk: the call
\* after each chunkGetItem, up to the first that throws
RECURSIVE ChunkGetItems(_, _)
ChunkGetItems(op, meta) ==
  IF op.pc # "contains" THEN <<>>
  ELSE The({ <<[pc |-> nxt.pc, out |-> nxt.out]>> \o ChunkGetItems(nxt, meta) :
             nxt \in { ChunkGetItemDecode(op, meta,
                                          StoredChunk(meta, op.projs[op.i].chunkCoords)) } })

ApplyChunkGetItem ==
  /\ probe.fn = "none"
  /\ probe' = The({ [probe EXCEPT !.fn = "chunkGetItem",
                                  !.res = [err |-> op.err, out |-> op.out,
                                           projs |-> op.projs,
                                           steps |-> ChunkGetItems(op, ProbeMeta)]] :
                    op \in { GetSelection([IdleOp EXCEPT !.kind = "get",
                                                         !.sel = probe.sel],
                                          ProbeMeta) } })
  /\ UNCHANGED <<array, storeMeta, store, pending, ops, nops, prev>>

NextPure ==
  ApplyBasicIndexer \/ ApplySliceNestedArray \/ ApplyIsTotalSlice \/ ApplyChunkGetItem

SpecPure == InitPure /\ [][NextPure]_vars

\* ------------------------------------------------------------------------
\* Two callers with a set each in flight on one instance
\* ------------------------------------------------------------------------

\* the writes the store holds at a time while two sets are in flight
MaxInFlight == 2

\* pairs of selections that have no array element in common; the first
\* pair of each shape meets in a chunk, the second does not
DisjointPairs(shape) ==
  IF Len(shape) = 1
  THEN { << <<Sl2(0, 1)>>, <<Sl2(1, 3)>> >>,
         << <<Sl2(0, 2)>>, <<Sl2(2, 3)>> >> }
  ELSE { << <<Sl2(0, 1), Sl2(0, 1)>>, <<Sl2(0, 1), Sl2(1, 3)>> >>,
         << <<Sl2(0, 1)>>, <<Sl2(1, 2)>> >> }

\* set(sel, value) called on a slot that has made no call yet
StartSetAt(s, sel, value) ==
  /\ ops[s].pc = "idle" /\ nops < MaxOps
  /\ ops' = [ops EXCEPT ![s] =
               SetBasicSelection([IdleOp EXCEPT !.id = nops + 1, !.kind = "set",
                                                !.sel = sel, !.value = value,
                                                !.store0 = store,
                                                !.quiet = (pending = {}),
                                                !.meta0 = array.meta],
                                 array)]
  /\ nops' = nops + 1
  /\ UNCHANGED <<probe, array, storeMeta, store, pending, prev>>

\* the first caller writes 7 into the first selection of a pair
StartFirst ==
  \E pair \in DisjointPairs(storeMeta.shape) : StartSetAt(1, pair[1], Num(7))

\* the second caller writes 8 into the other selection of the pair, without
\* waiting for the first
StartSecond ==
  /\ ops[1].kind = "set"
  /\ \E pair \in DisjointPairs(storeMeta.shape) :
       pair[1] = ops[1].sel /\ StartSetAt(2, pair[2], Num(8))

StepTwo(s) ==
  \/ ReloadMetadata(s)
  \/ SetChunkTotalWithin(s, MaxInFlight)
  \/ SetChunkPartial(s)
  \/ SetChunkRmwWithin(s, MaxInFlight)

NextTwo ==
  \/ StartFirst
  \/ StartSecond
  \/ \E s \in Slots : StepTwo(s)
  \/ \E w \in pending : Land(w)

SpecTwo == Init /\ [][NextTwo]_vars

\* ------------------------------------------------------------------------
\* The array's elements, for stating what a call should do
\* ------------------------------------------------------------------------

Cur == ops[1]

Range(seq) == {seq[k] : k \in 1..Len(seq)}

\* the positions of one axis that a dimension selection selects, in order
AxisPositions(d, len) ==
  IF d.t = "int" THEN <<NormalizeInt(d.i, len).i>>
  ELSE IF d.t = "null" THEN [k \in 1..len |-> k - 1]
  ELSE The({ [k \in 1..n.count |-> n.start + (k - 1) * n.step] :
             n \in {NormalizeSlice(d, len)} })

\* the array coordinates a selection selects, in the order of its result
SelectedCoords(sel, shape) ==
  The({ Product([d \in 1..Len(shape) |-> AxisPositions(full[d], shape[d])]) :
        full \in {NormalizeArraySelection(sel, shape)} })

\* the chunk that holds an array coordinate
ChunkOf(g, meta) == [d \in 1..Len(g) |-> g[d] \div meta.chunks[d]]

\* the array coordinate held at position p of the buffer of chunk cc
ElementAt(meta, cc, p) ==
  [d \in 1..Len(cc) |-> cc[d] * meta.chunks[d] + AllCoords(meta.chunks)[p][d]]

\* the chunks that hold at least one selected element
Touched(sel, meta) == {ChunkOf(g, meta) : g \in Range(SelectedCoords(sel, meta.shape))}

\* what an element that was never written reads as
Blank(meta) == IF meta.fill_value # Null THEN meta.fill_value[1] ELSE 0

\* what position p of chunk cc reads as in the store st
ReadBack(meta, st, cc, p) == IF st[cc] = Absent THEN Blank(meta) ELSE st[cc][p]

\* the element of the value of a set that goes to the array coordinate g
WrittenAt(op, meta, g) ==
  IF op.value.t = "num" THEN op.value.v
  ELSE The({ op.value.data[CHOOSE k \in 1..Len(cs) : cs[k] = g] :
             cs \in {SelectedCoords(op.sel, meta.shape)} })

\* the elements of what a get returned, in row-major order
ResultData(r) == IF r.t = "num" THEN <<r.v>> ELSE r.data

\* the requests of the given kinds that a call issued for a chunk key
Requests(op, key, kinds) ==
  {j \in 1..Len(op.log) : op.log[j].key = key /\ op.log[j].req \in kinds}

\* the projection j of a call has been carried out completely
Processed(op, j) == j < op.i \/ (j = op.i /\ op.pc = "done")

WritesOf(op) == {w \in pending : w.by = op.id}

\* ------------------------------------------------------------------------
\* Read-only arrays
\* ------------------------------------------------------------------------

\* C1: on an array created read-only every set, for any selection and value,
\* fails with PermissionError before any store request is issued (no metadata
\* reload, no chunk getItem, no chunk setItem) and the store stays as it was.
C1_ReadOnlySetFails ==
  \A s \in Slots :
     (array.readOnly /\ ops[s].kind = "set") =>
        /\ ops[s].pc = "failed" /\ ops[s].err = "PermissionError"
        /\ ops[s].log = <<>> /\ ops[s].got = <<>>
        /\ WritesOf(ops[s]) = {}
        /\ store = ops[s].store0

C1_Witness ==
  /\ array.readOnly /\ ~array.cacheMetadata
  /\ Cur.kind = "set" /\ Cur.pc = "failed" /\ Cur.value.t = "nd"
  /\ \E k \in DOMAIN store : store[k] # Absent

\* ------------------------------------------------------------------------
\* Completion of writes
\* ------------------------------------------------------------------------

\* C2: when set has returned, every chunk write it issued has been applied
\* by the store, also when the store applies setItem asynchronously: set is
\* never done while one of its writes is still pending.
C2_WritesCompleteOnReturn ==
  \A s \in Slots :
     (ops[s].kind = "set" /\ ops[s].pc = "done") => WritesOf(ops[s]) = {}

\* ------------------------------------------------------------------------
\* Round trip
\* ------------------------------------------------------------------------

\* the call in flight is A.set(sel, A.get(sel)) on a non-empty region, with
\* no write of another call applied since the get began
RoundTrip(op) ==
  /\ op.kind = "set" /\ op.quiet
  /\ prev.kind = "get" /\ prev.pc = "done" /\ ~prev.dirty
  /\ op.sel = prev.sel /\ op.value = prev.result
  /\ Len(ResultData(prev.result)) > 0

BlankChunk(meta) == [p \in 1..Prod(meta.chunks) |-> Blank(meta)]

\* C3 as claimed: A.set(sel, A.get(sel)) leaves the set of chunk keys and the
\* bytes under every key as they were before the call.
C3_RoundTripByteIdentical ==
  (RoundTrip(Cur) /\ Cur.pc = "done" /\ pending = {}) => store = Cur.store0

\* C3 amended: A.set(sel, A.get(sel)) leaves the bytes under every chunk key
\* that was present unchanged and leaves every key of a chunk the selection
\* does not touch as it was; a touched chunk whose key was absent is written,
\* and holds the fill value (zero when the fill value is null) at every
\* position, so that every element reads back as before.
C3_RoundTripPresentKeys ==
  RoundTrip(Cur) =>
     /\ \A k \in DOMAIN store :
          \/ store[k] = Cur.store0[k]
          \/ /\ Cur.store0[k] = Absent
             /\ k \in Touched(Cur.sel, array.meta)
             /\ store[k] = BlankChunk(array.meta)
     /\ (Cur.pc = "done" /\ pending = {}) =>
          \A k \in Touched(Cur.sel, array.meta) : store[k] # Absent

C3_Witness ==
  /\ RoundTrip(Cur) /\ Cur.pc = "done" /\ pending = {}
  /\ Cur.value.t = "nd"
  /\ \E k \in Touched(Cur.sel, array.meta) : Cur.store0[k] = Absent /\ store[k] # Absent
  /\ \E k \in Touched(Cur.sel, array.meta) : Cur.store0[k] # Absent

\* ------------------------------------------------------------------------
\* Writes: the total-slice branch and the partial branch
\* ------------------------------------------------------------------------

\* the chunk selection is a total slice of the chunk: every axis is the full
\* axis or a slice from 0 to the chunk length with step 1
TotalSliceOf(csel, chunks) ==
  \A d \in 1..Len(chunks) :
     \/ csel[d].t = "null"
     \/ /\ csel[d].t = "slice"
        /\ csel[d].step \in {Null, <<1>>}
        /\ csel[d].start \in {Null, <<0>>}
        /\ csel[d].stop \in {Null, <<chunks[d]>>}

\* C4: during set, for every chunk projection whose chunkSelection is a total
\* slice of the chunk, no getItem and no containsItem is issued for that chunk
\* key; the only request on the key is one setItem, of a buffer freshly built
\* from the value.
C4_TotalSliceNoRead ==
  \A s \in Slots :
     ops[s].kind = "set" =>
        \A j \in 1..Len(ops[s].projs) :
           LET cc == ops[s].projs[j].chunkCoords
               ws == Requests(ops[s], cc, {"setItem"})
           IN TotalSliceOf(ops[s].projs[j].chunkSelection, array.meta.chunks) =>
                /\ Requests(ops[s], cc, {"getItem", "containsItem"}) = {}
                /\ Cardinality(ws) = IF Processed(ops[s], j) THEN 1 ELSE 0
                /\ \A r \in ws :
                     ops[s].log[r].data =
                       [p \in 1..Prod(array.meta.chunks) |->
                          WrittenAt(ops[s], array.meta, ElementAt(array.meta, cc, p))]

C4_Witness ==
  /\ Cur.kind = "set" /\ Cur.pc = "done" /\ Cur.value.t = "nd"
  /\ \E j \in 1..Len(Cur.projs) :
        /\ TotalSliceOf(Cur.projs[j].chunkSelection, array.meta.chunks)
        /\ Cur.store0[Cur.projs[j].chunkCoords] # Absent
  /\ \E j \in 1..Len(Cur.projs) :
        ~TotalSliceOf(Cur.projs[j].chunkSelection, array.meta.chunks)

\* C5: a partial write preserves untouched elements. Every element that the
\* selection of a set does not select reads back as it did before the set, in
\* particular the unselected elements of a chunk that the selection covers
\* only partly; and the chunk keys of chunks the selection does not touch are
\* neither written nor created.
C5_PartialWriteFrame ==
  \A s \in Slots :
     (ops[s].kind = "set" /\ ops[s].quiet) =>
        LET selected == Range(SelectedCoords(ops[s].sel, array.meta.shape))
            touched == {ChunkOf(g, array.meta) : g \in selected}
        IN /\ \A cc \in DOMAIN store, p \in 1..Prod(array.meta.chunks) :
                ElementAt(array.meta, cc, p) \notin selected =>
                   ReadBack(array.meta, store, cc, p)
                     = ReadBack(array.meta, ops[s].store0, cc, p)
           /\ \A cc \in DOMAIN store \ touched :
                /\ store[cc] = ops[s].store0[cc]
                /\ Requests(ops[s], cc, {"setItem"}) = {}
                /\ \A w \in WritesOf(ops[s]) : w.key # cc

C5_Witness ==
  /\ Cur.kind = "set" /\ Cur.quiet /\ Cur.pc = "done" /\ pending = {}
  /\ \E cc \in DOMAIN store, p, q \in 1..Prod(array.meta.chunks) :
        /\ Cur.store0[cc] # Absent
        /\ store[cc][p] # Cur.store0[cc][p]
        /\ ElementAt(array.meta, cc, q)
             \notin Range(SelectedCoords(Cur.sel, array.meta.shape))
        /\ \A d \in 1..Len(cc) : ElementAt(array.meta, cc, q)[d] < array.meta.shape[d]
  /\ DOMAIN store \ Touched(Cur.sel, array.meta) # {}

\* C6: a partial write to a chunk whose key is absent initialises the chunk
\* from the fill value: the chunk written holds the written values at the
\* selected positions and the fill value at every other position, zero when
\* the fill value is null. A store error other than the absence of the key
\* is not taken for an absent chunk: it ends the set, which writes nothing
\* for that chunk.
C6_AbsentChunkFromFill ==
  \A s \in Slots :
     ops[s].kind = "set" =>
        /\ \A j \in 1..Len(ops[s].got) :
             LET cc == ops[s].got[j].key
                 ws == Requests(ops[s], cc, {"setItem"})
                 selected == Range(SelectedCoords(ops[s].sel, array.meta.shape))
             IN ops[s].got[j].data = Absent =>
                  /\ Cardinality(ws) = 1
                  /\ \A r \in ws :
                       /\ ops[s].log[r].data =
                            [p \in 1..Prod(array.meta.chunks) |->
                               IF ElementAt(array.meta, cc, p) \in selected
                               THEN WrittenAt(ops[s], array.meta,
                                              ElementAt(array.meta, cc, p))
                               ELSE Blank(array.meta)]
                       /\ \A w \in WritesOf(ops[s]) :
                            w.key = cc => w.data = ops[s].log[r].data
                       /\ (ops[s].quiet /\ \A w \in WritesOf(ops[s]) : w.key # cc)
                            => store[cc] = ops[s].log[r].data
        /\ ops[s].err = "StoreError" =>
             /\ ops[s].pc = "failed"
             /\ Requests(ops[s], ops[s].projs[ops[s].i].chunkCoords, {"setItem"}) = {}
             /\ \A w \in WritesOf(ops[s]) : w.key # ops[s].projs[ops[s].i].chunkCoords
             /\ \A j \in 1..Len(ops[s].got) :
                  ops[s].got[j].key # ops[s].projs[ops[s].i].chunkCoords

C6_Witness ==
  /\ Cur.kind = "set" /\ Cur.quiet /\ Cur.pc = "done" /\ pending = {}
  /\ Cur.value.t = "nd" /\ array.meta.fill_value # Null
  /\ \E j \in 1..Len(Cur.got) :
        /\ Cur.got[j].data = Absent
        /\ \E p \in 1..Prod(array.meta.chunks) :
              store[Cur.got[j].key][p] = Blank(array.meta)
        /\ \E p \in 1..Prod(array.meta.chunks) :
              store[Cur.got[j].key][p] # Blank(array.meta)

\* ------------------------------------------------------------------------
\* Reads
\* ------------------------------------------------------------------------

\* C7: on get a chunk whose key is absent is never an error. No getItem is
\* issued for the absent key, the output positions of that chunk hold the
\* fill value, or the zero of the freshly allocated output when the fill
\* value is null, and the remaining chunks are still processed.
C7_GetAbsentChunk ==
  \A s \in Slots :
     (ops[s].kind = "get" /\ ~ops[s].dirty) =>
        /\ \A j \in 1..Len(ops[s].projs) :
             ops[s].store0[ops[s].projs[j].chunkCoords] = Absent =>
                Requests(ops[s], ops[s].projs[j].chunkCoords, {"getItem"}) = {}
        /\ (ops[s].pc = "failed" /\ ops[s].i >= 1) =>
             ops[s].store0[ops[s].projs[ops[s].i].chunkCoords] # Absent
        /\ ops[s].pc = "done" =>
             LET cs == SelectedCoords(ops[s].sel, array.meta.shape)
             IN /\ \A j \in 1..Len(ops[s].projs) :
                     Requests(ops[s], ops[s].projs[j].chunkCoords, {"containsItem"}) # {}
                /\ Len(ResultData(ops[s].result)) = Len(cs)
                /\ \A k \in 1..Len(cs) :
                     ops[s].store0[ChunkOf(cs[k], array.meta)] = Absent =>
                        ResultData(ops[s].result)[k] = Blank(array.meta)

C7_Witness ==
  /\ Cur.kind = "get" /\ ~Cur.dirty /\ Cur.pc = "done"
  /\ array.meta.fill_value # Null
  /\ \E j, k \in 1..Len(Cur.projs) :
        /\ j < k
        /\ Cur.store0[Cur.projs[j].chunkCoords] = Absent
        /\ Cur.store0[Cur.projs[k].chunkCoords] # Absent

\* C8: scalar broadcast. After set(sel, c) with a number c has completed,
\* get(sel) returns a result of which every element equals c.
C8_ScalarBroadcast ==
  ( /\ prev.kind = "set" /\ prev.pc = "done" /\ prev.value.t = "num"
    /\ Cur.kind = "get" /\ Cur.sel = prev.sel /\ Cur.pc = "done" ) =>
     \A k \in 1..Len(ResultData(Cur.result)) :
        ResultData(Cur.result)[k] = prev.value.v

\* C9: get is pure. It issues no setItem and no deleteItem, it leaves every
\* chunk key and the array metadata as they are, and two get calls on one
\* selection with no write applied to the store from the start of the first
\* to the end of the second return results of equal shape and elements.
C9_GetIsPure ==
  \A s \in Slots :
     ops[s].kind = "get" =>
        /\ \A j \in 1..Len(ops[s].log) :
             ops[s].log[j].req \in {"containsItem", "getItem"}
        /\ WritesOf(ops[s]) = {}
        /\ ~ops[s].dirty => store = ops[s].store0
        /\ array.meta = storeMeta
        /\ ( /\ ops[s].pc = "done" /\ ~ops[s].dirty
             /\ prev.kind = "get" /\ prev.pc = "done" /\ ~prev.dirty
             /\ prev.sel = ops[s].sel )
             => ops[s].result = prev.result

C9_Witness ==
  /\ Cur.kind = "get" /\ Cur.pc = "done" /\ ~Cur.dirty
  /\ prev.kind = "get" /\ prev.pc = "done" /\ ~prev.dirty
  /\ Cur.result.t = "nd"
  /\ \E j, k \in 1..Len(Cur.result.data) : Cur.result.data[j] # Cur.result.data[k]
  /\ \E j \in 1..Len(Cur.log) : Cur.log[j].req = "getItem" /\ Cur.log[j].key # MetaKey
  /\ \E cc \in Touched(Cur.sel, array.meta) : store[cc] = Absent

\* ------------------------------------------------------------------------
\* The order of the chunks within one call
\* ------------------------------------------------------------------------

\* the chunk keys of the requests of a call in the order of their issue, the
\* requests on one chunk taken together
LogKeys(op) ==
  LET ks == Filter([j \in 1..Len(op.log) |-> op.log[j].key],
                   [j \in 1..Len(op.log) |-> op.log[j].key # MetaKey])
  IN Filter(ks, [j \in 1..Len(ks) |-> j = 1 \/ ks[j] # ks[j - 1]])

\* a comes before b in lexicographic order, axis 0 most significant
LexLess(a, b) ==
  \E d \in 1..Len(a) : a[d] < b[d] /\ \A e \in 1..(d - 1) : a[e] = b[e]

\* the step of the selection of a call on each axis
AxisSteps(sel, shape) ==
  [d \in 1..Len(shape) |->
     IF d <= Len(sel) /\ sel[d].t = "slice" /\ sel[d].step # Null
     THEN sel[d].step[1] ELSE 1]

\* a comes before b in row-major order of the product of the per-axis
\* indexers: on the first axis where they differ, b lies further along the
\* direction of the step of that axis
StreamLess(a, b, steps) ==
  \E d \in 1..Len(a) :
     /\ (IF steps[d] > 0 THEN a[d] < b[d] ELSE a[d] > b[d])
     /\ \A e \in 1..(d - 1) : a[e] = b[e]

OutCoords(ix, j) == SelCoords(ix.projs[j].outSelection)

\* C11: the outSelections of the chunk projections that the indexer yields
\* exactly tile the output region of shape outShape: every output position
\* lies in the outSelection of exactly one projection, no outSelection
\* reaches outside outShape, and the chunkSelection of a projection selects
\* as many elements as its outSelection.
C11_OutSelectionsTile ==
  (probe.fn = "BasicIndexer" /\ probe.res.err = "") =>
     /\ \A j \in 1..Len(probe.res.projs) :
          /\ \A c \in Range(OutCoords(probe.res, j)) :
               /\ Len(c) = Len(probe.res.shape)
               /\ \A d \in 1..Len(c) : 0 <= c[d] /\ c[d] < probe.res.shape[d]
          /\ Cardinality(Range(OutCoords(probe.res, j))) = Len(OutCoords(probe.res, j))
          /\ Len(SelCoords(probe.res.projs[j].chunkSelection))
               = Len(OutCoords(probe.res, j))
     /\ \A pos \in Range(AllCoords(probe.res.shape)) :
          Cardinality({j \in 1..Len(probe.res.projs) :
                         pos \in Range(OutCoords(probe.res, j))}) = 1

C11_Witness ==
  /\ probe.fn = "BasicIndexer" /\ probe.res.err = ""
  /\ Len(probe.shape) = 2 /\ Len(probe.res.projs) = 4
  /\ probe.res.shape = <<2, 2>>
  /\ \E d \in 1..2 : probe.res.steps[d] < 0

\* ------------------------------------------------------------------------
\* The chunks a call visits
\* ------------------------------------------------------------------------

\* the chunk keys of the array that a call has issued a store request for
Visited(op) == {op.log[j].key : j \in 1..Len(op.log)} \ {MetaKey}

\* C12: get and set touch the minimal set of chunks: a store request
\* (containsItem, getItem or setItem) is issued for a chunk key only if the
\* chunk holds at least one selected element, and each such chunk is visited
\* exactly once per operation: at most one getItem per key, and once the
\* call is done one containsItem per touched key for get and exactly one
\* setItem per touched key for set.
C12_MinimalChunkSet ==
  \A s \in Slots :
    ops[s].kind \in {"get", "set"} =>
      /\ Visited(ops[s]) \subseteq Touched(ops[s].sel, array.meta)
      /\ \A k \in Visited(ops[s]) :
           /\ Cardinality(Requests(ops[s], k, {"getItem"})) <= 1
           /\ Cardinality(Requests(ops[s], k, {"containsItem"})) <= 1
           /\ Cardinality(Requests(ops[s], k, {"setItem"})) <= 1
           /\ ops[s].kind = "get" => Requests(ops[s], k, {"setItem"}) = {}
           /\ ops[s].kind = "set" => Requests(ops[s], k, {"containsItem"}) = {}
      /\ ops[s].pc = "done" =>
           \A k \in Touched(ops[s].sel, array.meta) :
             IF ops[s].kind = "get"
             THEN Cardinality(Requests(ops[s], k, {"containsItem"})) = 1
             ELSE Cardinality(Requests(ops[s], k, {"setItem"})) = 1

C12_Witness ==
  /\ Cur.kind = "set" /\ Cur.pc = "done"
  /\ Cardinality(Visited(Cur)) = 2
  /\ ChunkKeys(array.meta) \ Touched(Cur.sel, array.meta) # {}
  /\ \E k \in Visited(Cur) : Requests(Cur, k, {"getItem"}) # {}
  /\ prev.kind = "get" /\ prev.pc = "done"

\* ------------------------------------------------------------------------
\* Slicing as NumPy does it
\* ------------------------------------------------------------------------

PyStep(sl) == IF IsNull(sl.step) THEN 1 ELSE sl.step[1]

\* a given start or stop brought into the axis the way NumPy does
PyAdjust(v, len, step) ==
  IF v < 0
  THEN (IF v + len < 0 THEN (IF step < 0 THEN -1 ELSE 0) ELSE v + len)
  ELSE IF v >= len THEN (IF step < 0 THEN len - 1 ELSE len)
  ELSE v

PyStart(sl, len) ==
  IF IsNull(sl.start) THEN (IF PyStep(sl) < 0 THEN len - 1 ELSE 0)
  ELSE PyAdjust(sl.start[1], len, PyStep(sl))

PyStop(sl, len) ==
  IF IsNull(sl.stop) THEN (IF PyStep(sl) < 0 THEN -1 ELSE len)
  ELSE PyAdjust(sl.stop[1], len, PyStep(sl))

\* the number of elements NumPy selects with the slice on an axis
PyLen(sl, len) ==
  IF PyStep(sl) < 0
  THEN (IF PyStop(sl, len) < PyStart(sl, len)
        THEN ((PyStart(sl, len) - PyStop(sl, len) - 1) \div (-PyStep(sl))) + 1 ELSE 0)
  ELSE (IF PyStart(sl, len) < PyStop(sl, len)
        THEN ((PyStop(sl, len) - PyStart(sl, len) - 1) \div PyStep(sl)) + 1 ELSE 0)

\* the positions of an axis NumPy selects, in the order of the result
PyPositions(d, len) ==
  IF d.t = "int" THEN <<IF d.i < 0 THEN d.i + len ELSE d.i>>
  ELSE IF d.t = "null" THEN [k \in 1..len |-> k - 1]
  ELSE [k \in 1..PyLen(d, len) |-> PyStart(d, len) + (k - 1) * PyStep(d)]

\* the selection with one entry per axis
Padded(sel, shape) == [d \in 1..Len(shape) |-> IF d <= Len(sel) THEN sel[d] ELSE Full]

\* the elements of the range array NumPy selects, in row-major order
PyElements(sel, shape) ==
  The({ [k \in 1..Len(cs) |-> Offset(shape, cs[k])] :
        cs \in {Product([d \in 1..Len(shape) |->
                           PyPositions(Padded(sel, shape)[d], shape[d])])} })

\* the shape of what NumPy returns: one entry per axis that is not indexed
\* by an integer
PyShape(sel, shape) ==
  Filter([d \in 1..Len(shape) |-> Len(PyPositions(Padded(sel, shape)[d], shape[d]))],
         [d \in 1..Len(shape) |-> Padded(sel, shape)[d].t # "int"])

\* slices with a step other than 0 and integers inside their axes
WellFormed(sel, shape) ==
  /\ Len(sel) <= Len(shape)
  /\ \A d \in 1..Len(sel) :
       /\ sel[d].t = "int" => -shape[d] <= sel[d].i /\ sel[d].i < shape[d]
       /\ sel[d].t = "slice" => PyStep(sel[d]) # 0

\* what sliceNestedArray returned, as the tests compare it
Sliced(res) ==
  [data |-> ResultData(res.result),
   shape |-> IF res.result.t = "num" THEN <<>> ELSE res.result.shape]

Reverse(s) == [k \in 1..Len(s) |-> s[Len(s) + 1 - k]]

\* C13: NumPy-compatible slicing: for every shape and every selection of
\* slices (null, negative or out-of-range bounds, positive or negative step)
\* and in-range integers, sliceNestedArray on the array holding
\* 0 .. product(shape) - 1 returns exactly the elements NumPy selects, in the
\* same order; the returned shape has per slice axis
\* max(0, ceil((stop - start) / step)) entries, computed after defaulting and
\* clamping; out-of-range bounds never raise an error; the results are the
\* ones the tests expect; and slice(null, null, -1) on a 1-D array yields the
\* reverse of slice(null, null, 1).
C13_NumPySlicing ==
  (probe.fn = "sliceNestedArray" /\ WellFormed(probe.sel, probe.shape)) =>
     /\ probe.res.err = ""
     /\ Sliced(probe.res).data = PyElements(probe.sel, probe.shape)
     /\ Sliced(probe.res).shape = PyShape(probe.sel, probe.shape)
     /\ \A d \in 1..Len(probe.sel) :
          probe.sel[d].t = "slice" =>
            Len(PyPositions(probe.sel[d], probe.shape[d]))
              = Max(0, CeilDiv(PyStop(probe.sel[d], probe.shape[d])
                                 - PyStart(probe.sel[d], probe.shape[d]),
                               PyStep(probe.sel[d])))
     /\ \A k \in 1..Len(TestCases) :
          (TestCases[k].shape = probe.shape /\ TestCases[k].selection = probe.sel) =>
             /\ Sliced(probe.res).data = TestCases[k].expected
             /\ Sliced(probe.res).shape = TestCases[k].expectedShape
     /\ (Len(probe.shape) = 1 /\ probe.sel = <<Rev>>) =>
          Sliced(probe.res).data
            = Reverse(ResultData(SliceNestedArray(RangeArray(probe.shape),
                                                  <<Slice(Null, Null, <<1>>)>>).result))

C13_Witness ==
  /\ probe.fn = "sliceNestedArray" /\ probe.res.err = ""
  /\ probe.shape = <<5>> /\ probe.sel = <<Slice(Null, <<-3>>, <<-2>>)>>
  /\ Sliced(probe.res) = [data |-> <<4>>, shape |-> <<1>>]

\* ------------------------------------------------------------------------
\* Integer indices
\* ------------------------------------------------------------------------

\* what the array coordinate g reads as in the store st
StoredAt(meta, st, g) ==
  ReadBack(meta, st, ChunkOf(g, meta),
           Offset(meta.chunks, [d \in 1..Len(g) |-> g[d] % meta.chunks[d]]) + 1)

\* the axes of an array that a selection indexes by an integer
IntAxes(sel, shape) == {d \in 1..Len(shape) : Padded(sel, shape)[d].t = "int"}

EmptyAxes(sel, shape) ==
  {d \in 1..Len(sel) : sel[d].t = "slice" /\ PyLen(sel[d], shape[d]) = 0}

\* C15: empty selection. When an axis of the selection is a zero-count
\* slice, the projection stream is empty while outShape reports that axis as
\* 0 and the other axes with their normal lengths; get then returns the empty
\* result immediately, without a request to the chunk store.
C15_EmptySelection ==
  \A s \in Slots :
    ( /\ ops[s].kind = "get" /\ ops[s].pc # "meta"
      /\ WellFormed(ops[s].sel, array.meta.shape)
      /\ EmptyAxes(ops[s].sel, array.meta.shape) # {} )
    => /\ ops[s].projs = <<>>
       /\ ops[s].shape = PyShape(ops[s].sel, array.meta.shape)
       /\ \A d \in EmptyAxes(ops[s].sel, array.meta.shape) :
            PyShape(ops[s].sel, array.meta.shape)
              [d - Cardinality({e \in IntAxes(ops[s].sel, array.meta.shape) : e < d})] = 0
       /\ ops[s].pc = "done"
       /\ ops[s].result = NestedArray(<<>>, PyShape(ops[s].sel, array.meta.shape))
       /\ Visited(ops[s]) = {}
       /\ ops[s].got = <<>>

C15_Witness ==
  /\ Cur.kind = "get" /\ Cur.pc = "done"
  /\ array.meta.shape = <<2, 3>> /\ Cur.sel = <<Slice(<<0>>, <<0>>, Null)>>
  /\ Cur.shape = <<0, 3>> /\ Cur.projs = <<>>
  /\ \A k \in ChunkKeys(array.meta) : store[k] # Absent

\* ------------------------------------------------------------------------
\* The value of a set
\* ------------------------------------------------------------------------

\* the value of a set that setSelection is to reject
BadValue(op, meta) ==
  \/ op.value.t = "nd" /\ op.value.shape # PyShape(op.sel, meta.shape)
  \/ op.value.t \notin {"num", "nd"}

\* C16: value validation on write. set(sel, value) with a NestedArray whose
\* shape differs from the indexer's outShape, and set with a value that is
\* neither a number nor a NestedArray, fails with ValueError before the
\* first chunk projection is processed: no chunk is read or written and the
\* store is unchanged.
C16_ValueValidation ==
  \A s \in Slots :
    ( /\ ops[s].kind = "set" /\ ops[s].pc # "meta"
      /\ ~array.readOnly
      /\ WellFormed(ops[s].sel, array.meta.shape)
      /\ BadValue(ops[s], array.meta) )
    => /\ ops[s].pc = "failed" /\ ops[s].err = "ValueError"
       /\ Visited(ops[s]) = {} /\ ops[s].got = <<>>
       /\ WritesOf(ops[s]) = {}
       /\ ~ops[s].dirty => store = ops[s].store0

\* ------------------------------------------------------------------------
\* Metadata caching
\* ------------------------------------------------------------------------

\* the requests for the array metadata that a call issued
MetaReads(op) == {j \in 1..Len(op.log) : op.log[j].key = MetaKey}

\* the metadata a call is to work with
MetaInUse(op) == IF array.cacheMetadata THEN op.meta0 ELSE storeMeta

\* what the array coordinate g holds in the store st of an array with the
\* metadata meta
HeldAt(meta, st, g) ==
  IF st[ChunkOf(g, meta)] = Absent THEN Blank(meta)
  ELSE DecodeWith(GetCodec(meta.compressor), st[ChunkOf(g, meta)])
         [Offset(meta.chunks, [d \in 1..Len(g) |-> g[d] % meta.chunks[d]]) + 1]

\* C17: metadata caching. When cacheMetadata is false, every get and every
\* set loads the array metadata from the store before its first chunk-store
\* access and works with the freshly loaded metadata (shape, chunks, fill
\* value, compressor); when cacheMetadata is true, no metadata read is issued
\* by get and set and they work with the metadata the instance holds since
\* its construction.
C17_MetadataCaching ==
  \A s \in Slots :
    ops[s].kind \in {"get", "set"} =>
      /\ ~array.cacheMetadata =>
           /\ (Visited(ops[s]) # {} \/ ops[s].pc = "done") => MetaReads(ops[s]) = {1}
           /\ (ops[s].kind = "get" \/ ~array.readOnly) =>
                /\ MetaReads(ops[s]) = {1}
                /\ ops[s].log[1].req = "getItem"
                /\ ops[s].pc # "meta" =>
                     /\ array.meta = storeMeta
                     /\ array.compressor = GetCodec(storeMeta.compressor)
      /\ array.cacheMetadata =>
           /\ MetaReads(ops[s]) = {}
           /\ array.meta = ops[s].meta0
           /\ array.compressor = GetCodec(ops[s].meta0.compressor)
      /\ (ops[s].kind = "get" /\ ops[s].pc = "done" /\ ~ops[s].dirty) =>
           LET cs == SelectedCoords(ops[s].sel, MetaInUse(ops[s]).shape)
           IN \A k \in 1..Len(cs) :
                ResultData(ops[s].result)[k]
                  = HeldAt(MetaInUse(ops[s]), ops[s].store0, cs[k])
      /\ ops[s].kind = "set" =>
           LET selected == Range(SelectedCoords(ops[s].sel, MetaInUse(ops[s]).shape))
           IN \A j \in 1..Len(ops[s].got) :
                ops[s].got[j].data = Absent =>
                   \A r \in Requests(ops[s], ops[s].got[j].key, {"setItem"}) :
                      \A p \in 1..Prod(MetaInUse(ops[s]).chunks) :
                         ElementAt(MetaInUse(ops[s]), ops[s].got[j].key, p) \notin selected =>
                            DecodeWith(GetCodec(MetaInUse(ops[s]).compressor),
                                       ops[s].log[r].data)[p]
                              = Blank(MetaInUse(ops[s]))

\* ------------------------------------------------------------------------
\* The size of the stored chunks
\* ------------------------------------------------------------------------

\* the chunks that reach past the end of the array on some axis
EdgeKeys(meta) ==
  {cc \in ChunkKeys(meta) :
     \E d \in 1..Len(cc) : (cc[d] + 1) * meta.chunks[d] > meta.shape[d]}

SelectsAll(item, shape) ==
  \A i \in 1..Len(item) :
    /\ item[i].t # "int"
    /\ PyPositions(item[i], shape[i]) = [k \in 1..shape[i] |-> k - 1]

\* C19: isTotalSlice(item, shape) returns true exactly when item specifies a
\* complete slice of an array with the given shape, i.e. when along every
\* axis item selects all shape[i] elements with step 1: a true result
\* implies that every element is selected, a false result that some element
\* is not. Stated for axes that are not empty and slices of step 1.
C19_IsTotalSliceExact ==
  ( /\ probe.fn = "isTotalSlice" /\ WellFormed(probe.sel, probe.shape)
    /\ \A i \in 1..Len(probe.sel) :
         /\ probe.shape[i] >= 1
         /\ probe.sel[i].t = "slice" => PyStep(probe.sel[i]) = 1 )
  => (probe.res <=> SelectsAll(probe.sel, probe.shape))

\* ------------------------------------------------------------------------
\* Two sets in flight
\* ------------------------------------------------------------------------

\* C20: two in-flight set operations on the same array whose selections
\* share no array element leave, once both have completed, a store equal to
\* the one obtained by running the two sets serially in some order: every
\* element written by either operation holds its written value and every
\* other element is as it was, for every interleaving of their store
\* requests, also when both selections partially cover the same chunk.
C20_DisjointSetsSerial ==
  ( /\ \A s \in Slots : ops[s].kind = "set" /\ ops[s].pc = "done"
    /\ pending = {} )
  => \A g \in Range(AllCoords(array.meta.shape)) :
       StoredAt(array.meta, store, g) =
         IF g \in Range(SelectedCoords(ops[1].sel, array.meta.shape)) THEN ops[1].value.v
         ELSE IF g \in Range(SelectedCoords(ops[2].sel, array.meta.shape))
         THEN ops[2].value.v
         ELSE StoredAt(array.meta, ops[1].store0, g)

\* ------------------------------------------------------------------------
\* C21  the read fast path against the general path
\* ------------------------------------------------------------------------

\* the output before chunkGetItem of projection j of the probed call
OutBefore(j) == IF j = 1 THEN probe.res.out ELSE probe.res.steps[j - 1].out

\* projection j meets the test of the fast path
MeetsFastPath(j) ==
  /\ IsContiguousSelection(probe.res.projs[j].outSelection)
  /\ IsTotalSlice(probe.res.projs[j].chunkSelection, probe.chunks)
  /\ ProbeMeta.filters = Null

\* what out.set(outSelection, chunk.get(chunkSelection)) leaves for projection j
GeneralPath(j) ==
  NaSet(OutBefore(j), probe.res.projs[j].outSelection,
        NaGet(NestedArray(StoredChunk(ProbeMeta, probe.res.projs[j].chunkCoords),
                          probe.chunks),
              probe.res.projs[j].chunkSelection))

\* C21: for every projection the indexer yields, a chunk that meets the test
\* of the fast path (output selection contiguous, chunk selection total, no
\* filters) is copied without an error, and every chunk chunkGetItem copies
\* leaves the output exactly as out.set(outSelection,
\* chunk.get(chunkSelection)) would: the fast path and the general path
\* agree
C21_FastPathEquivalent ==
  probe.fn = "chunkGetItem" =>
    \A j \in 1..Len(probe.res.steps) :
       /\ MeetsFastPath(j) => probe.res.steps[j].pc # "failed"
       /\ probe.res.steps[j].pc # "failed" => probe.res.steps[j].out = GeneralPath(j)

\* a call over several chunks came back, one of its chunks went through the
\* fast path and another through the general path
C21_Witness ==
  /\ probe.fn = "chunkGetItem"
  /\ Len(probe.res.steps) = Len(probe.res.projs)
  /\ Len(probe.res.steps) >= 2
  /\ probe.res.steps[Len(probe.res.steps)].pc = "done"
  /\ \E j \in 1..Len(probe.res.steps) :
        MeetsFastPath(j) /\ probe.res.steps[j].out # OutBefore(j)
  /\ \E j \in 1..Len(probe.res.steps) : ~MeetsFastPath(j)

====
